---- MODULE Spec2Model ----
(***************************************************************************)
(* Model of src/input.py: VideoReader (the buffered cursor), its two       *)
(* concrete readers FileVideoReader and RemoteFileReader, and the stream   *)
(* objects they own.  A byte is an integer 0..255, a byte string a         *)
(* sequence of bytes, a location a sequence of one-character strings.      *)
(***************************************************************************)
EXTENDS Integers, Sequences, FiniteSets, TLC

\* ------------------------------------------------------------------ bounds
MaxLen == 4          \* longest resource (file content / response body)
MaxCap == 2          \* largest max_buffer_length tried
MaxRead == 3         \* largest num_of_byte passed to a read
MaxAsked == 5        \* bytes requested between two repositionings
MaxOpens == 2        \* times the underlying source is opened
MaxTypedLen == 3     \* longest resource of the typed reads
MaxTypedRead == 2    \* largest num_of_byte passed to a typed read
MaxTypedCap == 1     \* largest max_buffer_length the typed reads are run with
MaxFloatLen == 2     \* longest resource of the fixed-point reads
MaxFloatRead == 1    \* largest byte count of either part of a fixed-point read
MaxFloatAsked == 3   \* bytes the fixed-point reads request between two repositionings

\* A resource whose byte at offset i is i + 1: every offset is told apart
Ramp(k) == [i \in 1..k |-> i]

\* resources the cursor is run on
Resources == {Ramp(k) : k \in 0..MaxLen}

\* bytes the resources of the typed reads are made of: 0x00, 0x01, 0x80
ByteSet == {0, 1, 128}

RECURSIVE SeqsOfLen(_)
SeqsOfLen(k) ==
  IF k = 0 THEN {<<>>}
  ELSE {Append(s, b) : s \in SeqsOfLen(k - 1), b \in ByteSet}

\* resources the typed reads are run on
TypedResources == UNION {SeqsOfLen(k) : k \in 0..MaxTypedLen}

\* bytes the resources of the fixed-point reads are made of: those of the
\* docstring of read_float (0x01 0x01, 0x11 0x10, 0x05 0x80) and 0x00
FloatByteSet == {0, 1, 5, 16, 17, 128}

RECURSIVE FloatSeqsOfLen(_)
FloatSeqsOfLen(k) ==
  IF k = 0 THEN {<<>>}
  ELSE {Append(s, b) : s \in FloatSeqsOfLen(k - 1), b \in FloatByteSet}

\* resources the fixed-point reads are run on
FloatResources == UNION {FloatSeqsOfLen(k) : k \in 0..MaxFloatLen}

\* ---------------------------------------------------------------- locations
LocFile    == <<"a", ".", "M", "P", "4">>
LocMissing == <<"n", "o", "t", "a", "u", "r", "l">>
LocHttp    == <<"h", "t", "t", "p", ":", "/", "/", "h", "/", "a", ".", "m", "p", "4">>
LocFtp     == <<"f", "t", "p", ":", "/", "/", "h", "/", "a">>
LocEmpty   == <<>>

Locations == {LocFile, LocMissing, LocHttp, LocFtp, LocEmpty}

\* locations the extend property is read on
LocClipMP4 == <<"c", "l", "i", "p", ".", "M", "P", "4">>
LocClipTxt == <<"c", "l", "i", "p", ".", "t", "x", "t">>
LocClip    == <<"c", "l", "i", "p">>
LocBareMp4 == <<"m", "p", "4">>
LocDotEnd  == <<"a", ".">>
LocHttpMkv == <<"h", "t", "t", "p", ":", "/", "/", "h", "/", "a", ".", "M", "k", "v">>
LocHttpDir == <<"h", "t", "t", "p", ":", "/", "/", "h", ".", "c", "/", "r", "m">>

ExtendLocations ==
  {LocClipMP4, LocClipTxt, LocClip, LocBareMp4, LocDotEnd, LocHttp, LocHttpMkv, LocHttpDir,
   LocFtp}

\* paths that exist on disk (os.path.exists)
ExistingPaths == {LocFile, LocClipMP4, LocClipTxt, LocClip, LocBareMp4, LocDotEnd}

VARIABLES
  kind,               \* class constructed: "file" (FileVideoReader) or "remote" (RemoteFileReader)
  video_loc,          \* self.video_loc
  resource,           \* bytes of the file / of the response body at video_loc
  max_buffer_length,  \* self.max_buffer_length
  phase,              \* "new" (not constructed), "open", "closed", "failed" (constructor raised)
  stream,             \* self.stream: [obj, pos, closed]; obj = "None" until _open_stream sets it
  total_bytes,        \* self.total_bytes
  buffer,             \* self._buffer: [is, bytes]; is = "unset" | "bytearray" | "None"
  pointer,            \* self._buffer_pointer
  opens,              \* times open() / requests.get() has been called
  live,               \* file handles / responses opened and not closed
  ret,                \* outcome of the last call
  consumed,           \* bytes the reads have produced since the last repositioning
  asked,              \* sum of num_of_byte >= 0 requested since the last repositioning
  negEpoch,           \* a read with num_of_byte < 0 happened since the last repositioning
  high,               \* most bytes produced by reads (num_of_byte >= 0) in one pass on this stream
  origin              \* last repositioning: "construct" | "cheap" | "reopen"

vars == <<kind, video_loc, resource, max_buffer_length, phase, stream, total_bytes,
          buffer, pointer, opens, live, ret, consumed, asked, negEpoch, high, origin>>

env == <<kind, video_loc, resource, max_buffer_length>>
ghost == <<consumed, asked, negEpoch, high, origin>>

\* ------------------------------------------------------------------ helpers
Min(a, b) == IF a < b THEN a ELSE b
Max(a, b) == IF a > b THEN a ELSE b

\* python s[a:b] for 0 <= a
Slice(s, a, b) == SubSeq(s, a + 1, Min(b, Len(s)))

\* python s[a:] for 0 <= a
SliceFrom(s, a) == SubSeq(s, a + 1, Len(s))

\* str.startswith
StartsWith(s, p) == Len(s) >= Len(p) /\ SubSeq(s, 1, Len(p)) = p

NoStream == [obj |-> "None", pos |-> 0, closed |-> FALSE]

\* (a reopened stream that carries on where the old one was)
NewStream_Stale == [obj |-> "stream", pos |-> stream.pos, closed |-> FALSE]

NewStream == [obj |-> "stream", pos |-> 0, closed |-> FALSE]

Ret(op, n, opt, err, data, val) ==
  [op |-> op, n |-> n, opt |-> opt, err |-> err, data |-> data, val |-> val]

\* ------------------------------------------------------------------ streams
\* A stream read yields a set of outcomes [err, data, pos]: the bytes returned
\* and the position the stream is left at.

\* the file object made by open(video_loc, 'rb'): a short read at end of file,
\* ValueError once closed
FileStreamRead(n) ==
  IF stream.closed THEN {[err |-> "io", data |-> <<>>, pos |-> stream.pos]}
  ELSE IF n < 0
    THEN {[err |-> "ok", data |-> SliceFrom(resource, stream.pos), pos |-> Len(resource)]}
    ELSE {[err |-> "ok", data |-> Slice(resource, stream.pos, stream.pos + n),
           pos |-> Min(stream.pos + n, Len(resource))]}

\* RemoteFileStreamAdapter.read: next(self.iter) num_of_byte times, or list(self.iter).
\* next() on the exhausted iterator raises StopIteration and the bytes pulled so
\* far are dropped.  After response.close() the iterator has nothing to give:
\* next() raises, and what list(self.iter) does is up to the HTTP library.
RemoteStreamRead(n) ==
  IF stream.closed
    THEN IF n = 0 THEN {[err |-> "ok", data |-> <<>>, pos |-> stream.pos]}
         ELSE IF n > 0 THEN {[err |-> "io", data |-> <<>>, pos |-> stream.pos]}
         ELSE {[err |-> "ok", data |-> <<>>, pos |-> stream.pos],
               [err |-> "io", data |-> <<>>, pos |-> stream.pos]}
  ELSE IF n < 0
    THEN {[err |-> "ok", data |-> SliceFrom(resource, stream.pos), pos |-> Len(resource)]}
  ELSE IF stream.pos + n <= Len(resource)
    THEN {[err |-> "ok", data |-> Slice(resource, stream.pos, stream.pos + n),
           pos |-> stream.pos + n]}
    ELSE {[err |-> "io", data |-> <<>>, pos |-> Len(resource)]}

\* self.stream.read(n)
StreamRead(n) == IF kind = "file" THEN FileStreamRead(n) ELSE RemoteStreamRead(n)

\* ------------------------------------------------------------- VideoReader
\* (an off-by-one in the capacity test)
_is_buffer_full_Late == Len(buffer.bytes) > max_buffer_length + 1

\* _is_buffer_full
_is_buffer_full == Len(buffer.bytes) > max_buffer_length

\* An outcome of read: [err, data, bytes, pointer, pos]: what is returned or
\* raised, and the buffer, pointer and stream position it leaves.
Outcome(err, data, bytes, ptr, pos) ==
  [err |-> err, data |-> data, bytes |-> bytes, pointer |-> ptr, pos |-> pos]

\* (the bypass read mirrored into the buffer)
ReadDirect_Mirrors(n) ==
  {Outcome(s.err, s.data, buffer.bytes \o s.data, pointer, s.pos) : s \in StreamRead(n)}

\* lines 88-91: no buffer bookkeeping at all
ReadDirect(n) ==
  {Outcome(s.err, s.data, buffer.bytes, pointer, s.pos) : s \in StreamRead(n)}

\* (the frontier read returning the whole buffer instead of the fresh data)
ReadFrontier_ReturnsBuffer(n) ==
  {IF s.err = "ok"
     THEN Outcome("ok", buffer.bytes \o s.data, buffer.bytes \o s.data, pointer + n, s.pos)
     ELSE Outcome(s.err, <<>>, buffer.bytes, pointer, s.pos) : s \in StreamRead(n)}

\* (the frontier read replacing the buffer by the fresh data)
ReadFrontier_Overwrites(n) ==
  {IF s.err = "ok"
     THEN Outcome("ok", s.data, s.data, pointer + n, s.pos)
     ELSE Outcome(s.err, <<>>, buffer.bytes, pointer, s.pos) : s \in StreamRead(n)}

\* lines 94-98: all real read
ReadFrontier(n) ==
  {IF s.err = "ok"
     THEN Outcome("ok", s.data, buffer.bytes \o s.data, pointer + n, s.pos)
     ELSE Outcome(s.err, <<>>, buffer.bytes, pointer, s.pos) : s \in StreamRead(n)}

\* (the buffer slice taken one byte early)
ReadInside_OffByOne(n) ==
  {Outcome("ok", Slice(buffer.bytes, Max((pointer + n) - n, 0), pointer + n),
           buffer.bytes, pointer + n, stream.pos)}

\* (the bytes handed out from the buffer dropped from it)
ReadInside_TrimsBuffer(n) ==
  {Outcome("ok", Slice(buffer.bytes, (pointer + n) - n + 1, (pointer + n) + 1),
           SliceFrom(buffer.bytes, n), pointer, stream.pos)}

\* lines 99-101: all from buffer
ReadInside(n) ==
  {Outcome("ok", Slice(buffer.bytes, (pointer + n) - n + 1, (pointer + n) + 1),
           buffer.bytes, pointer + n, stream.pos)}

\* (the pointer advanced by the bytes fetched, not by the bytes returned)
ReadStraddle_PointerByFetched(n) ==
  LET buffer_len == Len(buffer.bytes)
      data_buffer_part == SliceFrom(buffer.bytes, pointer + 1)
      remained_not_read_num == n - (buffer_len - (pointer + 1))
  IN {IF s.err = "ok"
        THEN Outcome("ok", data_buffer_part \o s.data, buffer.bytes \o s.data,
                     pointer + remained_not_read_num, s.pos)
        ELSE Outcome(s.err, <<>>, buffer.bytes, pointer, s.pos)
      : s \in StreamRead(remained_not_read_num)}

\* (the straddling read fetching all num_of_byte bytes from the stream)
ReadStraddle_RereadsAll(n) ==
  LET data_buffer_part == SliceFrom(buffer.bytes, pointer + 1)
  IN {IF s.err = "ok"
        THEN Outcome("ok", data_buffer_part \o s.data, buffer.bytes \o s.data,
                     pointer + n, s.pos)
        ELSE Outcome(s.err, <<>>, buffer.bytes, pointer, s.pos)
      : s \in StreamRead(n)}

\* lines 102-108: one part from buffer and the other real read
ReadStraddle(n) ==
  LET buffer_len == Len(buffer.bytes)
      data_buffer_part == SliceFrom(buffer.bytes, pointer + 1)
      remained_not_read_num == n - (buffer_len - (pointer + 1))
  IN {IF s.err = "ok"
        THEN Outcome("ok", data_buffer_part \o s.data, buffer.bytes \o s.data,
                     pointer + n, s.pos)
        ELSE Outcome(s.err, <<>>, buffer.bytes, pointer, s.pos)
      : s \in StreamRead(remained_not_read_num)}

\* VideoReader.read(num_of_byte): the set of its outcomes
ReadOutcomes(n) ==
  IF n < 0 THEN ReadDirect(n)
  ELSE IF buffer.is # "bytearray"
    THEN {Outcome("io", <<>>, buffer.bytes, pointer, stream.pos)}  \* len(None): TypeError
  ELSE IF _is_buffer_full THEN ReadDirect(n)
  ELSE LET buffer_len == Len(buffer.bytes)
       IN IF buffer_len = pointer + 1 THEN ReadFrontier(n)
          ELSE IF buffer_len - (pointer + 1) >= n THEN ReadInside(n)
          ELSE ReadStraddle(n)


\* ---------------------------------------------------------- typed decoders
ByteOrders == {"big", "little"}
Charsets == {"ascii", "utf8"}

\* int.from_bytes, unsigned
RECURSIVE FromBytesBig(_)
FromBytesBig(data) ==
  IF data = <<>> THEN 0
  ELSE FromBytesBig(SubSeq(data, 1, Len(data) - 1)) * 256 + data[Len(data)]

RECURSIVE FromBytesLittle(_)
FromBytesLittle(data) ==
  IF data = <<>> THEN 0
  ELSE data[1] + 256 * FromBytesLittle(Tail(data))

\* (byteorder not passed on: int.from_bytes with the default order)
from_bytes_AlwaysBig(data, byteorder) == FromBytesBig(data)

\* int.from_bytes(data, byteorder=byteorder)
from_bytes(data, byteorder) ==
  IF byteorder = "big" THEN FromBytesBig(data) ELSE FromBytesLittle(data)

\* bin(x): '0b' and the binary digits of x, no leading zero ('0b0' for 0)
RECURSIVE BinDigits(_)
BinDigits(x) ==
  IF x < 2 THEN <<IF x = 1 THEN "1" ELSE "0">>
  ELSE Append(BinDigits(x \div 2), IF x % 2 = 1 THEN "1" ELSE "0")

bin(x) == <<"0", "b">> \o BinDigits(x)

\* str.lstrip(chars): the leading characters that are in chars removed
RECURSIVE lstrip(_, _)
lstrip(s, chars) ==
  IF s # <<>> /\ s[1] \in chars THEN lstrip(Tail(s), chars) ELSE s

\* str.zfill(width): '0' added on the left up to width
RECURSIVE zfill(_, _)
zfill(s, width) == IF Len(s) >= width THEN s ELSE zfill(<<"0">> \o s, width)

RECURSIVE Pow2(_)
Pow2(e) == IF e = 0 THEN 1 ELSE 2 * Pow2(e - 1)

\* (the weight of bit i taken as 2**(-i))
BitWeight_OneBitHigh(width, i) == Pow2(width - i)

\* 2**(-1 - i), in units of 2**(-width)
BitWeight(width, i) == Pow2(width - 1 - i)

\* float(after_point_bits[i]): '0' or '1'
BitValue(c) == IF c = "1" THEN 1 ELSE 0

\* sum(float(after_point_bits[i]) * 2**(-1 - i) for i in range(width)), in
\* units of 2**(-width)
RECURSIVE SumBits(_, _, _)
SumBits(bits, width, i) ==
  IF i >= width THEN 0
  ELSE BitValue(bits[i + 1]) * BitWeight(width, i) + SumBits(bits, width, i + 1)

\* lines 74-77: the fraction decoded from the bytes of the second read, as the
\* count of units of 2**(-width), width = after_point_num_of_byte * 8
after_point_num(data, after_point_num_of_byte, byteorder) ==
  LET width == after_point_num_of_byte * 8
      after_point_bits == zfill(lstrip(bin(from_bytes(data, byteorder)), {"0", "b"}), width)
  IN SumBits(after_point_bits, width, 0)

\* the value read_float returns: int + frac / den (den a power of two)
FloatValue(before, after, after_point_num_of_byte, byteorder) ==
  [int |-> from_bytes(before, byteorder),
   frac |-> after_point_num(after, after_point_num_of_byte, byteorder),
   den |-> Pow2(after_point_num_of_byte * 8)]

\* bytes.decode(charset): [err, text], text the code points.  utf8 is decoded
\* for its one- and two-byte forms (ByteSet holds no lead byte of a longer one).
RECURSIVE DecodeUtf8(_)
DecodeUtf8(data) ==
  IF data = <<>> THEN [err |-> "ok", text |-> <<>>]
  ELSE IF data[1] < 128
    THEN LET r == DecodeUtf8(Tail(data))
         IN [err |-> r.err, text |-> IF r.err = "ok" THEN <<data[1]>> \o r.text ELSE <<>>]
  ELSE IF data[1] >= 194 /\ data[1] <= 223 /\ Len(data) >= 2
          /\ data[2] >= 128 /\ data[2] <= 191
    THEN LET r == DecodeUtf8(Tail(Tail(data)))
             cp == (data[1] - 192) * 64 + (data[2] - 128)
         IN [err |-> r.err, text |-> IF r.err = "ok" THEN <<cp>> \o r.text ELSE <<>>]
  ELSE [err |-> "decode", text |-> <<>>]

decode(data, charset) ==
  IF charset = "ascii"
    THEN IF \E i \in 1..Len(data) : data[i] >= 128
           THEN [err |-> "decode", text |-> <<>>]
           ELSE [err |-> "ok", text |-> data]
  ELSE DecodeUtf8(data)

\* -------------------------------------------------------------- extension
\* COMMON_VIDEO_EXTENDS
COMMON_VIDEO_EXTENDS ==
  {<<"a", "s", "f">>, <<"a", "v", "i">>, <<"f", "l", "v">>, <<"m", "k", "v">>,
   <<"m", "o", "v">>, <<"m", "p", "4">>, <<"r", "m">>, <<"r", "m", "v", "b">>}

\* str.split('.')[-1]: what follows the last '.', the whole string without one
RECURSIVE SplitLast(_)
SplitLast(s) ==
  IF s = <<>> THEN <<>>
  ELSE IF s[Len(s)] = "." THEN <<>>
  ELSE Append(SplitLast(SubSeq(s, 1, Len(s) - 1)), s[Len(s)])

\* str.lower() of one character
LowerChar(c) ==
  CASE c = "A" -> "a" [] c = "B" -> "b" [] c = "C" -> "c" [] c = "D" -> "d"
    [] c = "E" -> "e" [] c = "F" -> "f" [] c = "G" -> "g" [] c = "H" -> "h"
    [] c = "I" -> "i" [] c = "J" -> "j" [] c = "K" -> "k" [] c = "L" -> "l"
    [] c = "M" -> "m" [] c = "N" -> "n" [] c = "O" -> "o" [] c = "P" -> "p"
    [] c = "Q" -> "q" [] c = "R" -> "r" [] c = "S" -> "s" [] c = "T" -> "t"
    [] c = "U" -> "u" [] c = "V" -> "v" [] c = "W" -> "w" [] c = "X" -> "x"
    [] c = "Y" -> "y" [] c = "Z" -> "z" [] OTHER -> c

\* str.lower()
lower(s) == [i \in 1..Len(s) |-> LowerChar(s[i])]

\* VideoReader.extend: the value of the property
ExtendValue(loc) ==
  LET ext == SplitLast(loc)
  IN IF ext = <<>> THEN [is |-> "None", str |-> <<>>]
     ELSE IF lower(ext) \in COMMON_VIDEO_EXTENDS THEN [is |-> "str", str |-> lower(ext)]
     ELSE [is |-> "None", str |-> <<>>]

\* ------------------------------------------------------------ construction
\* _open_stream: the outcomes of opening the source.  open() of the path that
\* was just checked succeeds; requests.get answers 200 or another status.
OpenOutcomes == IF kind = "file" THEN {"ok"} ELSE {"ok", "status"}

\* FileVideoReader._open_stream / RemoteFileReader._open_stream with outcome o:
\* self.stream is assigned only on success; a response is held either way
_open_stream(o, s, l) ==
  [stream |-> IF o = "ok" THEN NewStream ELSE s, live |-> l + 1]

\* self.stream.close()
StreamClose(s) == [s EXCEPT !.closed = TRUE]
LiveAfterClose(s, l) == IF s.closed THEN l ELSE l - 1

\* _init_total_bytes: os.path.getsize, or the Content-Length lookup, whose
\* headers.get[...] raises inside the bare except and leaves -1
_init_total_bytes == IF kind = "file" THEN Len(resource) ELSE -1

\* VideoReader.__init__
VideoReader_init ==
  \E o \in OpenOutcomes :
    LET opened == _open_stream(o, NoStream, live)
    IN /\ opens' = opens + 1
       /\ live' = opened.live
       /\ stream' = opened.stream
       /\ IF o = "ok"
            THEN /\ total_bytes' = _init_total_bytes
                 /\ buffer' = [is |-> "bytearray", bytes |-> <<>>]
                 /\ pointer' = -1
                 /\ phase' = "open"
                 /\ ret' = Ret("init", 0, "", "ok", <<>>, 0)
            ELSE /\ phase' = "failed"
                 /\ ret' = Ret("init", 0, "", "io", <<>>, 0)
                 /\ UNCHANGED <<total_bytes, buffer, pointer>>

InitFails ==
  /\ phase' = "failed"
  /\ ret' = Ret("init", 0, "", "config", <<>>, 0)
  /\ UNCHANGED <<stream, total_bytes, buffer, pointer, opens, live>>

\* (the size test left out)
FileUsable_ExistsOnly == video_loc \in ExistingPaths

\* os.path.exists(video_loc) and os.path.getsize(video_loc) > 0
FileUsable == video_loc \in ExistingPaths /\ Len(resource) > 0

\* FileVideoReader.__init__
FileVideoReader_init ==
  /\ phase = "new"
  /\ kind = "file"
  /\ IF ~FileUsable THEN InitFails ELSE VideoReader_init
  /\ UNCHANGED <<env, ghost>>

\* video_loc.startswith('http') or video_loc.startswith('ftp')
HasScheme ==
  \/ StartsWith(video_loc, <<"h", "t", "t", "p">>)
  \/ StartsWith(video_loc, <<"f", "t", "p">>)

\* RemoteFileReader.__init__
RemoteFileReader_init ==
  /\ phase = "new"
  /\ kind = "remote"
  /\ IF ~HasScheme THEN InitFails ELSE VideoReader_init
  /\ UNCHANGED <<env, ghost>>

\* --------------------------------------------------------------- operations
Callable == phase \in {"open", "closed"}

\* the effect of one call of self.read(n) on the reader and on the bookkeeping
ReadEffect(n, out) ==
  /\ buffer' = [buffer EXCEPT !.bytes = out.bytes]
  /\ pointer' = out.pointer
  /\ stream' = [stream EXCEPT !.pos = out.pos]
  /\ consumed' = IF out.err = "ok" THEN consumed \o out.data ELSE consumed
  /\ asked' = IF n >= 0 THEN asked + n ELSE asked
  /\ negEpoch' = (negEpoch \/ n < 0)
  /\ high' = IF n >= 0 /\ ~negEpoch /\ out.err = "ok"
               THEN Max(high, Len(consumed) + Len(out.data)) ELSE high
  /\ UNCHANGED <<env, phase, total_bytes, opens, live, origin>>

InBound(n) == n >= 0 => asked + n <= MaxAsked

\* VideoReader.read
read(n) ==
  /\ Callable
  /\ InBound(n)
  /\ \E out \in ReadOutcomes(n) :
       /\ ReadEffect(n, out)
       /\ ret' = Ret("read", n, "", out.err, out.data, 0)

\* VideoReader.read_int
read_int(n, byteorder) ==
  /\ Callable
  /\ InBound(n)
  /\ \E out \in ReadOutcomes(n) :
       /\ ReadEffect(n, out)
       /\ ret' = Ret("read_int", n, byteorder, out.err, out.data,
                     IF out.err = "ok" THEN from_bytes(out.data, byteorder) ELSE 0)

\* (decoding before the bytes are taken: a failed decode consumes nothing)
read_str_NoConsume(n, charset) ==
  /\ Callable
  /\ InBound(n)
  /\ \E out \in ReadOutcomes(n) :
       LET d == decode(out.data, charset)
       IN IF out.err = "ok" /\ d.err # "ok"
            THEN /\ ret' = Ret("read_str", n, charset, d.err, <<>>, 0)
                 /\ UNCHANGED <<env, phase, stream, total_bytes, buffer, pointer,
                                opens, live, ghost>>
            ELSE /\ ReadEffect(n, out)
                 /\ ret' = IF out.err = "ok"
                             THEN Ret("read_str", n, charset, d.err, d.text, 0)
                             ELSE Ret("read_str", n, charset, out.err, <<>>, 0)

\* VideoReader.read_str
read_str(n, charset) ==
  /\ Callable
  /\ InBound(n)
  /\ \E out \in ReadOutcomes(n) :
       /\ ReadEffect(n, out)
       /\ ret' = IF out.err = "ok"
                   THEN LET d == decode(out.data, charset)
                        IN Ret("read_str", n, charset, d.err, d.text, 0)
                   ELSE Ret("read_str", n, charset, out.err, <<>>, 0)

\* read_float is inside its body, between its two reads
InReadFloat == ret.op = "read_float:73"

\* VideoReader.read_float, line 73: the read of the integer part
read_float_before(before_point_num_of_byte, after_point_num_of_byte, byteorder) ==
  LET nn == <<before_point_num_of_byte, after_point_num_of_byte>>
  IN /\ Callable
     /\ ~InReadFloat
     /\ asked + before_point_num_of_byte + after_point_num_of_byte <= MaxFloatAsked
     /\ \E out \in ReadOutcomes(before_point_num_of_byte) :
          /\ ReadEffect(before_point_num_of_byte, out)
          /\ ret' = IF out.err = "ok"
                      THEN Ret("read_float:73", nn, byteorder, "ok", <<out.data>>, 0)
                      ELSE Ret("read_float", nn, byteorder, out.err, <<>>, 0)

\* VideoReader.read_float, lines 74-78: the read of the fraction and the sum
read_float_after ==
  /\ InReadFloat
  /\ \E out \in ReadOutcomes(ret.n[2]) :
       /\ ReadEffect(ret.n[2], out)
       /\ ret' = IF out.err = "ok"
                   THEN Ret("read_float", ret.n, ret.opt, "ok", <<ret.data[1], out.data>>,
                            FloatValue(ret.data[1], out.data, ret.n[2], ret.opt))
                   ELSE Ret("read_float", ret.n, ret.opt, out.err, <<>>, 0)

\* VideoReader.refresh
refresh ==
  /\ Callable
  /\ IF buffer.is # "bytearray"
       THEN /\ ret' = Ret("refresh", 0, "", "io", <<>>, 0)   \* len(None): TypeError
            /\ UNCHANGED <<stream, buffer, pointer, opens, live, ghost>>
     ELSE IF _is_buffer_full
       THEN /\ opens < MaxOpens
            /\ \E o \in OpenOutcomes :
                 LET opened == _open_stream(o, StreamClose(stream),
                                            LiveAfterClose(stream, live))
                 IN /\ opens' = opens + 1
                    /\ live' = opened.live
                    /\ stream' = opened.stream
                    /\ IF o = "ok"
                         THEN /\ buffer' = [buffer EXCEPT !.bytes = <<>>]
                              /\ pointer' = -1
                              /\ ret' = Ret("refresh", 0, "reopen", "ok", <<>>, 0)
                              /\ consumed' = <<>>
                              /\ asked' = 0
                              /\ negEpoch' = FALSE
                              /\ high' = 0
                              /\ origin' = "reopen"
                         ELSE /\ ret' = Ret("refresh", 0, "reopen", "io", <<>>, 0)
                              /\ UNCHANGED <<buffer, pointer, ghost>>
     ELSE /\ pointer' = -1
          /\ ret' = Ret("refresh", 0, "cheap", "ok", <<>>, 0)
          /\ consumed' = <<>>
          /\ asked' = 0
          /\ negEpoch' = FALSE
          /\ origin' = "cheap"
          /\ UNCHANGED <<stream, buffer, opens, live, high>>
  /\ UNCHANGED <<env, phase, total_bytes>>

\* VideoReader.extend (a property: reading it changes nothing)
extend ==
  /\ Callable
  /\ ret' = LET e == ExtendValue(video_loc) IN Ret("extend", 0, e.is, "ok", e.str, 0)
  /\ UNCHANGED <<env, phase, stream, total_bytes, buffer, pointer, opens, live, ghost>>

\* VideoReader.close
close ==
  /\ phase = "open"
  /\ stream' = StreamClose(stream)
  /\ live' = LiveAfterClose(stream, live)
  /\ buffer' = [is |-> "None", bytes |-> <<>>]
  /\ phase' = "closed"
  /\ ret' = Ret("close", 0, "", "ok", <<>>, 0)
  /\ UNCHANGED <<env, total_bytes, pointer, opens, ghost>>

\* ------------------------------------------------------------ specification
Unbuilt ==
  /\ kind \in {"file", "remote"}
  /\ max_buffer_length \in 1..MaxCap
  /\ phase = "new"
  /\ stream = NoStream
  /\ total_bytes = -1
  /\ buffer = [is |-> "unset", bytes |-> <<>>]
  /\ pointer = -1
  /\ opens = 0
  /\ live = 0
  /\ ret = Ret("none", 0, "", "ok", <<>>, 0)
  /\ consumed = <<>>
  /\ asked = 0
  /\ negEpoch = FALSE
  /\ high = 0
  /\ origin = "construct"

Init == Unbuilt /\ video_loc \in Locations /\ resource \in Resources

Lengths == -1..MaxRead

Next ==
  \/ FileVideoReader_init
  \/ RemoteFileReader_init
  \/ \E n \in Lengths : read(n)
  \/ refresh
  \/ close

Spec == Init /\ [][Next]_vars

\* reads that stay inside the resource: read(n >= 0) with the bytes asked for
\* since the last repositioning not exceeding the size of the resource
InsideResource(n) == n >= 0 /\ asked + n <= Len(resource)

NextInside ==
  \/ FileVideoReader_init
  \/ RemoteFileReader_init
  \/ \E n \in Lengths : InsideResource(n) /\ read(n)
  \/ refresh

SpecInside == Init /\ [][NextInside]_vars

\* the typed reads, on resources of every byte pattern
InitTyped ==
  /\ Unbuilt
  /\ video_loc \in {LocFile, LocHttp, LocMissing}
  /\ resource \in TypedResources
  /\ max_buffer_length <= MaxTypedCap

TypedLengths == 0..MaxTypedRead

NextTyped ==
  \/ FileVideoReader_init
  \/ RemoteFileReader_init
  \/ \E n \in TypedLengths, byteorder \in ByteOrders : read_int(n, byteorder)
  \/ \E n \in TypedLengths, charset \in Charsets : read_str(n, charset)
  \/ refresh

SpecTyped == InitTyped /\ [][NextTyped]_vars

\* the fixed-point reads, with the smallest buffer: the two reads of one
\* read_float(1, 1) overflow it
InitFloat ==
  /\ Unbuilt
  /\ video_loc \in {LocFile, LocHttp}
  /\ resource \in FloatResources
  /\ max_buffer_length = 1

FloatLengths == 0..MaxFloatRead

NextFloat ==
  \/ FileVideoReader_init
  \/ RemoteFileReader_init
  \/ \E a \in FloatLengths, b \in FloatLengths, byteorder \in ByteOrders :
       read_float_before(a, b, byteorder)
  \/ read_float_after
  \/ ~InReadFloat /\ refresh

SpecFloat == InitFloat /\ [][NextFloat]_vars

\* the extend property, on readers of every location
InitExtend == Unbuilt /\ video_loc \in ExtendLocations /\ resource \in Resources

NextExtend ==
  \/ FileVideoReader_init
  \/ RemoteFileReader_init
  \/ extend
  \/ close

SpecExtend == InitExtend /\ [][NextExtend]_vars

\* ------------------------------------------------------------------ claims

\* C1: read-composition.  On a freshly constructed reader (no refresh yet),
\* after any reads with num_of_byte >= 0 whose lengths sum to T <= capacity and
\* T <= resource size, the bytes returned, concatenated, are the first T bytes
\* of the resource, and the last read returned exactly what it was asked for.
C1_ReadComposition ==
  (/\ phase = "open"
   /\ origin = "construct"
   /\ ~negEpoch
   /\ asked <= max_buffer_length
   /\ asked <= Len(resource))
  => /\ consumed = SubSeq(resource, 1, asked)
     /\ ret.op = "read" => (ret.err = "ok" /\ Len(ret.data) = ret.n)

\* C1 at work: capacity reached by a second read
C1_Witness ==
  /\ phase = "open"
  /\ origin = "construct"
  /\ asked = max_buffer_length
  /\ ret.op = "read"
  /\ ret.n = 1
  /\ consumed = <<1, 2>>

C3_ReopeningRefresh ==
  /\ [][(/\ refresh
         /\ phase = "open"
         /\ ~negEpoch
         /\ Len(consumed) > max_buffer_length
         /\ ret'.err = "ok")
        => (/\ ret'.opt = "reopen"
            /\ opens' = opens + 1
            /\ stream' = NewStream
            /\ buffer'.bytes = <<>>
            /\ pointer' = -1)]_vars
  /\ []((/\ phase = "open"
         /\ origin = "reopen"
         /\ ~stream.closed
         /\ ~negEpoch
         /\ asked <= Len(resource))
        => (/\ consumed = SubSeq(resource, 1, asked)
            /\ ret.op = "read" => (ret.err = "ok" /\ Len(ret.data) = ret.n)))

\* C3 at work: after overflow and a reopening refresh, read(2) gives bytes 0..1
C3_Witness ==
  /\ phase = "open"
  /\ origin = "reopen"
  /\ opens = 2
  /\ ret.op = "read"
  /\ ret.n = 2
  /\ asked = 2
  /\ ret.data = <<1, 2>>

\* C4: read(n) with n < 0 returns all the bytes of the logical stream that are
\* left from the current logical position, buffered ones first, so that with
\* what the reads of this pass returned before it the whole resource has been
\* returned; and it leaves cursor_position advanced by the bytes it returned.
C4_DrainFromLogicalPosition ==
  (/\ phase = "open"
   /\ ret.op = "read"
   /\ ret.n < 0
   /\ ret.err = "ok")
  => /\ consumed = resource
     /\ pointer + 1 = Len(consumed)

\* C5: after reads of any lengths (negative ones too) on an open reader and a
\* refresh() that returned, the first read(k) with 0 <= k <= resource size
\* returns bytes 0..k-1 of the resource.
C5_RefreshRepositions ==
  (/\ phase = "open"
   /\ origin # "construct"
   /\ ~negEpoch
   /\ ret.op = "read"
   /\ ret.n = asked
   /\ ret.n <= Len(resource))
  => /\ ret.err = "ok"
     /\ ret.data = SubSeq(resource, 1, ret.n)

\* C6: read(n) with n >= 0 on an open reader returns exactly n bytes or fails
\* with an error; never a shorter byte string.
C6_ExactOrError ==
  (/\ phase = "open"
   /\ ret.op = "read"
   /\ ret.n >= 0)
  => (ret.err # "ok" \/ Len(ret.data) = ret.n)

C8_ConstructionFailsEarly ==
  (/\ phase # "new"
   /\ \/ kind = "file" /\ (video_loc \notin ExistingPaths \/ Len(resource) = 0)
      \/ kind = "remote" /\ ~StartsWith(video_loc, <<"h", "t", "t", "p">>)
                         /\ ~StartsWith(video_loc, <<"f", "t", "p">>))
  => /\ phase = "failed"
     /\ ret.op = "init"
     /\ ret.err = "config"
     /\ opens = 0
     /\ live = 0
     /\ stream = NoStream
     /\ buffer.is = "unset"

\* C8 at work: the constructor of a file reader has refused an empty file
C8_Witness ==
  /\ phase = "failed"
  /\ kind = "file"
  /\ video_loc \in ExistingPaths
  /\ resource = <<>>
  /\ ret.err = "config"
  /\ opens = 0

\* the reads of this pass have stayed inside the resource, on a stream read in
\* order from offset 0 or inside what the buffer already replays, and no
\* reopening has raised and left the stream closed
InOrderPass ==
  /\ phase = "open"
  /\ ~stream.closed
  /\ ~negEpoch
  /\ asked <= Len(resource)
  /\ (origin \in {"construct", "reopen"} \/ asked <= high)

\* C9 as stated: a decode error of read_str(k, charset) leaves cursor_position
\* advanced by k and the freshly read bytes mirrored in the buffer.
C9_DecodeErrorAdvancesCursor ==
  [][(ret'.op = "read_str" /\ ret'.err = "decode")
     => (/\ pointer' = pointer + ret'.n
         /\ buffer'.bytes = buffer.bytes \o SubSeq(resource, stream.pos + 1, stream'.pos))]_vars

\* C9 amended: a decode error of read_str(k, charset) leaves the reader as the
\* read(k) inside it left it.  With the buffer not overflowed, cursor_position
\* has advanced by k and the bytes fetched from the stream are appended to the
\* buffer; with the buffer overflowed, the bytes are taken from the stream only
\* and buffer and cursor_position are unchanged.  Either way the bytes count as
\* consumed: the reads of a pass that stays inside the resource have produced
\* its bytes in order from byte 0, a failed decode included.
C9_DecodeErrorKeepsCursor ==
  /\ [][(ret'.op = "read_str" /\ ret'.err = "decode")
        => LET fetched == SubSeq(resource, stream.pos + 1, stream'.pos)
           IN /\ stream'.pos >= stream.pos
              /\ Len(consumed') > Len(consumed)
              /\ Len(consumed') <= Len(consumed) + ret'.n
              /\ IF Len(buffer.bytes) > max_buffer_length
                   THEN /\ pointer' = pointer
                        /\ buffer' = buffer
                        /\ Len(fetched) = Min(ret'.n, Len(resource) - stream.pos)
                   ELSE /\ pointer' = pointer + ret'.n
                        /\ buffer'.bytes = buffer.bytes \o fetched]_vars
  /\ [](InOrderPass => consumed = SubSeq(resource, 1, asked))

\* C9 at work: read_str(2, ...) has failed to decode 0x01 0x80 at the frontier;
\* both bytes are in the buffer and the pointer is on the second
C9_Witness ==
  /\ phase = "open"
  /\ ret.op = "read_str"
  /\ ret.err = "decode"
  /\ ret.n = 2
  /\ pointer = 1
  /\ buffer.bytes = <<1, 128>>
  /\ consumed = <<1, 128>>

RECURSIVE Pow256(_)
Pow256(e) == IF e = 0 THEN 1 ELSE 256 * Pow256(e - 1)

\* sum over i of data[i] * 256^(k-i) (big) or data[i] * 256^(i-1) (little), k = Len(data)
RECURSIVE WeightedSum(_, _, _)
WeightedSum(data, i, big) ==
  IF i > Len(data) THEN 0
  ELSE data[i] * Pow256(IF big THEN Len(data) - i ELSE i - 1)
       + WeightedSum(data, i + 1, big)

\* C10: read_int(k, byte_order) takes its bytes by one read(k) (exactly the k
\* bytes at the cursor when the pass stays inside the resource) and returns
\* their unsigned value in the byte order asked for: big-endian the sum of
\* byte_i * 256^(k-1-i), little-endian the sum of byte_i * 256^i; big-endian
\* 0x00 0x01 is 1 and 0x01 0x00 is 256.
C10_ReadInt ==
  (phase = "open" /\ ret.op = "read_int" /\ ret.err = "ok")
  => /\ ret.val = WeightedSum(ret.data, 1, ret.opt = "big")
     /\ (ret.opt = "big" /\ ret.data = <<0, 1>>) => ret.val = 1
     /\ (ret.opt = "big" /\ ret.data = <<1, 0>>) => ret.val = 256
     /\ InOrderPass => ret.data = SubSeq(resource, asked - ret.n + 1, asked)
     /\ InOrderPass => Len(ret.data) = ret.n

\* C10 at work: read_int(2, 'big') on 0x01 0x00
C10_Witness ==
  /\ phase = "open"
  /\ ret.op = "read_int"
  /\ ret.n = 2
  /\ ret.opt = "big"
  /\ ret.data = <<1, 0>>
  /\ ret.val = 256

\* C11: read_float(a, b, byte_order) takes a bytes by one read and then b bytes
\* by a second (exactly the a and then the b bytes at the cursor when the pass
\* stays inside the resource) and returns I + F / 2^(8b), I the unsigned value
\* of the first bytes and F that of the next ones in the byte order asked for;
\* read_float(1, 1, 'big') gives 257/256 on 0x01 0x01, 17 + 16/256 = 17.0625 on
\* 0x11 0x10 and 5 + 128/256 = 5.5 on 0x05 0x80.
C11_ReadFloat ==
  (phase = "open" /\ ret.op = "read_float" /\ ret.err = "ok")
  => LET a == ret.n[1]
         b == ret.n[2]
         big == ret.opt = "big"
     IN /\ ret.val.int = WeightedSum(ret.data[1], 1, big)
        /\ ret.val.frac = WeightedSum(ret.data[2], 1, big)
        /\ ret.val.den = Pow256(b)
        /\ (big /\ ret.n = <<1, 1>> /\ ret.data = <<(<<1>>), (<<1>>)>>)
             => (ret.val.int * ret.val.den + ret.val.frac = 257 /\ ret.val.den = 256)
        /\ (big /\ ret.n = <<1, 1>> /\ ret.data = <<(<<17>>), (<<16>>)>>)
             => (ret.val.int = 17 /\ ret.val.frac * 16 = ret.val.den)
        /\ (big /\ ret.n = <<1, 1>> /\ ret.data = <<(<<5>>), (<<128>>)>>)
             => (ret.val.int = 5 /\ ret.val.frac * 2 = ret.val.den)
        /\ InOrderPass => /\ ret.data[1] = SubSeq(resource, asked - a - b + 1, asked - b)
                          /\ ret.data[2] = SubSeq(resource, asked - b + 1, asked)
                          /\ Len(ret.data[1]) = a
                          /\ Len(ret.data[2]) = b

\* C11 at work: read_float(1, 1, 'big') on 0x05 0x80 has returned 5.5
C11_Witness ==
  /\ phase = "open"
  /\ ret.op = "read_float"
  /\ ret.err = "ok"
  /\ ret.opt = "big"
  /\ ret.n = <<1, 1>>
  /\ ret.data = <<(<<5>>), (<<128>>)>>
  /\ ret.val = [int |-> 5, frac |-> 128, den |-> 256]

\* the location has a '.'
HasDot(loc) == \E i \in 1..Len(loc) : loc[i] = "."

\* what follows the last '.' of a location that has one
RECURSIVE AfterLastDot(_)
AfterLastDot(loc) ==
  IF loc[Len(loc)] = "." THEN <<>>
  ELSE Append(AfterLastDot(SubSeq(loc, 1, Len(loc) - 1)), loc[Len(loc)])

\* C12: the extension property returns the lowercased extension when the
\* extension of the location is in the allow-list ("mp4" for "clip.MP4"), and
\* none when it is not in the list ("clip.txt") and for every location that
\* has no dot at all.
C12_Extension ==
  (ret.op = "extend")
  => /\ video_loc = LocClipMP4 => (ret.opt = "str" /\ ret.data = <<"m", "p", "4">>)
     /\ video_loc = LocClipTxt => ret.opt = "None"
     /\ ~HasDot(video_loc) => ret.opt = "None"
     /\ HasDot(video_loc) =>
          IF lower(AfterLastDot(video_loc)) \in COMMON_VIDEO_EXTENDS
            THEN ret.opt = "str" /\ ret.data = lower(AfterLastDot(video_loc))
            ELSE ret.opt = "None"

\* C13: cursor invariant.  In every state reached by reads of any length (also
\* for more bytes than the source has left) and refreshes on an open reader,
\* 0 <= cursor_position + 1 <= len(buffer).
C13_CursorInvariant ==
  phase = "open" => (0 <= pointer + 1 /\ pointer + 1 <= Len(buffer.bytes))

\* C14: overflow bypass.  Once len(buffer) > capacity, every read reads from
\* the stream directly and leaves the buffer and cursor_position as they are,
\* so the buffer does not grow after the read that pushed it over capacity; it
\* changes again only by a refresh that reopens (or by close).
C14_OverflowBypass ==
  /\ [][((\E n \in Lengths : read(n)) /\ phase = "open" /\ _is_buffer_full)
        => (/\ buffer' = buffer
            /\ pointer' = pointer
            /\ ret'.err = "ok" => ret'.data = SubSeq(resource, stream.pos + 1, stream'.pos)
            /\ (ret'.err = "ok" /\ ret'.n >= 0 /\ ~stream.closed)
                 => Len(ret'.data) = Min(ret'.n, Len(resource) - stream.pos))]_vars
  /\ [][(phase = "open" /\ _is_buffer_full /\ buffer' # buffer)
        => \/ refresh /\ ret'.opt = "reopen" /\ ret'.err = "ok" /\ buffer'.bytes = <<>>
           \/ close]_vars

\* C14 at work: with capacity 1 and two bytes buffered, read(1) has returned the
\* third byte and the buffer still holds two
C14_Witness ==
  /\ phase = "open"
  /\ max_buffer_length = 1
  /\ buffer.bytes = <<1, 2>>
  /\ pointer = 1
  /\ ret.op = "read"
  /\ ret.n = 1
  /\ ret.data = <<3>>
  /\ consumed = <<1, 2, 3>>

\* C15: cache transparency.  For reads (num_of_byte >= 0) and refreshes that
\* stay inside the resource, reads after the buffer has overflowed included,
\* the reader is a cursor with one offset p (here: asked) into the resource:
\* read(n) returns resource[p..p+n-1] and moves p to p+n, refresh moves p to 0
\* (while no reopening has raised and left the stream closed).
C15_CacheTransparency ==
  (phase = "open" /\ ~stream.closed)
  => /\ consumed = SubSeq(resource, 1, asked)
     /\ ret.op = "read" => /\ ret.err = "ok"
                           /\ ret.data = SubSeq(resource, asked - ret.n + 1, asked)
     /\ ret.op = "refresh" => (ret.err = "ok" /\ asked = 0)

\* C15 at work: capacity 1; after an overflow and a reopening refresh the
\* buffer has overflowed again and read(1) has returned the third byte by a
\* bypass read
C15_Witness ==
  /\ phase = "open"
  /\ ~stream.closed
  /\ origin = "reopen"
  /\ max_buffer_length = 1
  /\ Len(buffer.bytes) = 2
  /\ ret.op = "read"
  /\ ret.n = 1
  /\ ret.data = <<3>>
  /\ asked = 3

\* C16: a cheap refresh costs no I/O.  With the buffer not overflowed,
\* refresh() only sets cursor_position to -1: the buffer and the stream (the
\* object and its position) stay as they are and nothing is opened or closed.
\* A read that lies inside the buffered region leaves the stream untouched; a
\* straddling read takes from the stream only the bytes beyond the buffered
\* region, and appends only those to the buffer.
C16_CheapRefreshNoIO ==
  /\ [][(refresh /\ phase = "open" /\ ~_is_buffer_full)
        => (/\ ret'.opt = "cheap"
            /\ pointer' = -1
            /\ buffer' = buffer
            /\ stream' = stream
            /\ opens' = opens
            /\ live' = live)]_vars
  /\ [][((\E n \in Lengths : read(n)) /\ phase = "open" /\ ~_is_buffer_full
          /\ ret'.n >= 0 /\ pointer + 1 <= Len(buffer.bytes))
        => LET n == ret'.n
               avail == Len(buffer.bytes) - (pointer + 1)
               fetched == SubSeq(resource, stream.pos + 1, stream'.pos)
           IN IF avail >= n
                THEN /\ stream' = stream
                     /\ buffer' = buffer
                     /\ ret'.data = SubSeq(buffer.bytes, pointer + 2, pointer + 1 + n)
                ELSE /\ stream.pos >= Len(buffer.bytes)
                     /\ stream'.pos >= stream.pos
                     /\ Len(fetched) <= n - avail
                     /\ ret'.err = "ok"
                          => /\ buffer'.bytes = buffer.bytes \o fetched
                             /\ ret'.data = SliceFrom(buffer.bytes, pointer + 1) \o fetched]_vars

\* C16 at work: capacity 1; read(1), a cheap refresh, then read(2) has given
\* the buffered byte and one byte fetched from the stream
C16_Witness ==
  /\ phase = "open"
  /\ origin = "cheap"
  /\ max_buffer_length = 1
  /\ buffer.bytes = <<1, 2>>
  /\ stream.pos = 2
  /\ opens = 1
  /\ ret.op = "read"
  /\ ret.n = 2
  /\ ret.data = <<1, 2>>

\* C17: single owned source.  From successful construction until close(), one
\* source is open for the reader in every state, and it is the one the reader
\* owns (self.stream); a reopening refresh closes the old source before it
\* opens the new one and ends with the buffer empty and cursor_position = -1,
\* also when opening the new source fails, and then no source is left open.
C17_SingleOwnedSource ==
  /\ phase = "open" => (live = 1 /\ stream.obj = "stream" /\ ~stream.closed)
  /\ (phase = "open" /\ ret.op = "refresh" /\ ret.opt = "reopen")
       => (buffer.bytes = <<>> /\ pointer = -1)
  /\ (phase = "open" /\ ret.op = "refresh" /\ ret.opt = "reopen" /\ ret.err # "ok")
       => live = 0

\* s is a prefix of t
IsPrefix(s, t) == Len(s) <= Len(t) /\ SubSeq(t, 1, Len(s)) = s

\* C18: the buffer is append-only.  Across a read or a cheap refresh on an open
\* reader the buffer as it was is a prefix of the buffer as it is; the one
\* operation that shortens it is a reopening refresh, which leaves it empty.
C18_BufferAppendOnly ==
  [][(phase = "open" /\ phase' = "open")
     => \/ IsPrefix(buffer.bytes, buffer'.bytes)
        \/ /\ refresh
           /\ _is_buffer_full
           /\ ret'.opt = "reopen"
           /\ buffer'.bytes = <<>>]_vars

\* C18 at work: capacity 1; read(1), a cheap refresh, then read(3) has
\* appended two bytes to the one the buffer held
C18_Witness ==
  /\ phase = "open"
  /\ origin = "cheap"
  /\ max_buffer_length = 1
  /\ buffer.bytes = <<1, 2, 3>>
  /\ ret.op = "read"
  /\ ret.n = 3
  /\ ret.data = <<1, 2, 3>>

\* C19: for reads (num_of_byte >= 0) that stay inside the resource and
\* refreshes, whenever the buffer is overflowed the cursor is at the frontier
\* of the buffer: cursor_position + 1 = len(buffer).  So a bypass read skips no
\* buffered byte, and overflow is never entered with the cursor inside the
\* buffer.
C19_OverflowAtFrontier ==
  /\ [](phase = "open" /\ _is_buffer_full => pointer + 1 = Len(buffer.bytes))
  /\ [][(phase = "open" /\ ~_is_buffer_full /\ _is_buffer_full')
        => (/\ pointer' + 1 = Len(buffer'.bytes)
            /\ ret'.op = "read"
            /\ ret'.data = SubSeq(resource, asked + 1, asked'))]_vars

\* C19 at work: capacity 2; read(2), a cheap refresh, read(1) inside the
\* buffer, then read(2) has straddled into overflow and the cursor is on the
\* last buffered byte
C19_Witness ==
  /\ phase = "open"
  /\ origin = "cheap"
  /\ max_buffer_length = 2
  /\ buffer.bytes = <<1, 2, 3>>
  /\ pointer = 2
  /\ ret.op = "read"
  /\ ret.n = 2
  /\ ret.data = <<2, 3>>

\* C20: for reads (num_of_byte >= 0) that stay inside the resource and
\* refreshes, the buffer is the first len(buffer) bytes of the resource, and
\* while it is not overflowed the bytes consumed from the current stream since
\* it was opened number len(buffer).
C20_BufferMirrorsPrefix ==
  phase = "open"
  => /\ buffer.bytes = SubSeq(resource, 1, Len(buffer.bytes))
     /\ ~_is_buffer_full => (~stream.closed /\ stream.pos = Len(buffer.bytes))

\* C20 at work: capacity 2; the buffer holds the first two bytes of a longer
\* resource after two frontier reads, the stream has given exactly those
C20_Witness ==
  /\ phase = "open"
  /\ origin = "construct"
  /\ max_buffer_length = 2
  /\ Len(resource) > 2
  /\ buffer.bytes = <<1, 2>>
  /\ stream.pos = 2
  /\ ret.op = "read"
  /\ ret.n = 1
  /\ ret.data = <<2>>

====
